---- MODULE Spec2Model ----
(***************************************************************************)
(* Model of the template harvesting scripts extract_from_github.py and     *)
(* extract_banana_templates.py: source acquisition, document location,     *)
(* prompt parsing, classification, deduplication / id allocation and the   *)
(* merge into the persisted catalog templates.json.                        *)
(*                                                                         *)
(* Python strings are modelled as sequences of Unicode code points, so     *)
(* that slicing, strip(), lower(), title(), split(), substring tests and   *)
(* the ASCII / alphabetic character counts are computed as the code        *)
(* computes them.                                                          *)
(***************************************************************************)
EXTENDS Integers, Sequences, FiniteSets, TLC

(***************************************************************************)
(* Python str primitives                                                   *)
(***************************************************************************)

AsciiLow == "#$%&'()*+,-./0123456789:;<=>?@ABCDEFGHIJKLMNOPQRSTUVWXYZ["
AsciiHigh == "]^_"
AsciiLetters == "abcdefghijklmnopqrstuvwxyz{|}~"

IndexIn(c, s) == CHOOSE i \in 1..Len(s) : SubSeq(s, i, i) = c

\* ord(c) of a one-character literal.
Ord(c) ==
    IF c = "\n" THEN 10
    ELSE IF c = " " THEN 32
    ELSE IF c = "!" THEN 33
    ELSE IF \E i \in 1..Len(AsciiLow) : SubSeq(AsciiLow, i, i) = c
         THEN 34 + IndexIn(c, AsciiLow)
    ELSE IF \E i \in 1..Len(AsciiHigh) : SubSeq(AsciiHigh, i, i) = c
         THEN 92 + IndexIn(c, AsciiHigh)
    ELSE 96 + IndexIn(c, AsciiLetters)

\* A string literal as the sequence of its code points.
Str(s) == [i \in 1..Len(s) |-> Ord(SubSeq(s, i, i))]

Min(a, b) == IF a < b THEN a ELSE b

\* s[:n]
Prefix(s, n) == SubSeq(s, 1, Min(n, Len(s)))

\* s[n:]  (0-based start n)
Suffix(s, n) == SubSeq(s, n + 1, Len(s))

\* s.startswith(p)
startswith(s, p) == Len(p) <= Len(s) /\ SubSeq(s, 1, Len(p)) = p

\* s.endswith(p)
endswith(s, p) == Len(p) <= Len(s) /\ SubSeq(s, Len(s) - Len(p) + 1, Len(s)) = p

\* kw in s
Contains(kw, s) ==
    \E i \in 1..(Len(s) - Len(kw) + 1) : SubSeq(s, i, i + Len(kw) - 1) = kw

IsUpperAscii(c) == c \in 65..90
IsLowerAscii(c) == c \in 97..122
IsAsciiAlpha(c) == IsUpperAscii(c) \/ IsLowerAscii(c)
IsDigit(c) == c \in 48..57
\* CJK unified ideographs: the non-ASCII letters of the keyword tables and documents.
IsCJK(c) == c \in 19968..40959

\* c.isalpha()
isalpha(c) == IsAsciiAlpha(c) \/ IsCJK(c)

\* whitespace removed by str.strip()
IsSpace(c) == c \in {9, 10, 11, 12, 13, 32}

LowerChar(c) == IF IsUpperAscii(c) THEN c + 32 ELSE c
UpperChar(c) == IF IsLowerAscii(c) THEN c - 32 ELSE c

\* s.lower()
lower(s) == [i \in 1..Len(s) |-> LowerChar(s[i])]

\* s.title(): a cased character is upper-cased after an uncased one and
\* lower-cased after a cased one.
title(s) ==
    [i \in 1..Len(s) |->
        IF i > 1 /\ IsAsciiAlpha(s[i - 1]) THEN LowerChar(s[i]) ELSE UpperChar(s[i])]

\* s.strip()
strip(s) ==
    LET keep == {i \in 1..Len(s) : ~IsSpace(s[i])}
    IN IF keep = {} THEN <<>>
       ELSE LET lo == CHOOSE i \in keep : \A j \in keep : i <= j
                hi == CHOOSE i \in keep : \A j \in keep : j <= i
            IN SubSeq(s, lo, hi)

RECURSIVE replace(_, _, _)
\* s.replace(old, new), old non-empty
replace(s, old, new) ==
    IF s = <<>> THEN <<>>
    ELSE IF startswith(s, old) THEN new \o replace(Suffix(s, Len(old)), old, new)
    ELSE <<Head(s)>> \o replace(Tail(s), old, new)

RECURSIVE split(_, _)
\* s.split(sep) for a one-character separator
split(s, sep) ==
    LET hits == {i \in 1..Len(s) : s[i] = sep}
    IN IF hits = {} THEN <<s>>
       ELSE LET k == CHOOSE i \in hits : \A j \in hits : i <= j
            IN <<SubSeq(s, 1, k - 1)>> \o split(Suffix(s, k), sep)

RECURSIVE DigitsValue(_)
\* int(s) of a string of decimal digits (leading zeros allowed)
DigitsValue(s) ==
    IF s = <<>> THEN 0 ELSE 10 * DigitsValue(SubSeq(s, 1, Len(s) - 1)) + (s[Len(s)] - 48)

RECURSIVE Decimal(_)
\* str(n) for n >= 0
Decimal(n) == IF n < 10 THEN <<48 + n>> ELSE Decimal(n \div 10) \o <<48 + (n % 10)>>

RECURSIVE ZeroPad(_, _)
\* s.zfill(width)
ZeroPad(s, width) == IF Len(s) >= width THEN s ELSE ZeroPad(<<48>> \o s, width)

\* f"{n:0{width}d}"
FormatPadded(n, width) == ZeroPad(Decimal(n), width)

NL == 10
Slash == 47
Hash == 35
\* the fenced-block delimiter: three backquotes
Fence == <<96, 96, 96>>


(***************************************************************************)
(* String literals of the two scripts                                      *)
(***************************************************************************)

MdExt == Str(".md")
NbpPrefix == Str("nbp-")
SubtreeName == Str("gpt4o-image-prompts-master")
BlobUrl == Str("https://github.com/xianyu110/awesome-nanobananapro-prompts/blob/master/")
SourceName == Str("@xianyu110")
SourceLabel == Str("GitHub")
TitlePrefix == <<78, 97, 110, 111, 32, 66, 97, 110, 97, 110, 97, 183>>  \* "Nano Banana·"

\* the keywords the classifiers and the parameter scan look for
Kw ==
    [xieshi |-> <<20889, 23454>>,                                                    \* 写实
     dongman |-> <<21160, 28459>>,                                                   \* 动漫
     chanpin |-> <<20135, 21697>>,                                                   \* 产品
     meishi |-> <<32654, 39135>>,                                                    \* 美食
     shishang |-> <<26102, 23578>>,                                                  \* 时尚
     saibo |-> <<36187, 21338>>,                                                     \* 赛博
     manhua |-> <<28459, 30011>>,                                                    \* 漫画
     haibao |-> <<28023, 25253>>,                                                    \* 海报
     fengjing |-> <<39118, 26223>>,                                                  \* 风景
     jianzhu |-> <<24314, 31569>>,                                                   \* 建筑
     xiaoxiang |-> <<32918, 20687>>,                                                 \* 肖像
     sheying |-> <<25668, 24433>>,                                                   \* 摄影
     sheji |-> <<35774, 35745>>,                                                     \* 设计
     changjing |-> <<22330, 26223>>,                                                 \* 场景
     yishuFengge |-> <<33402, 26415, 39118, 26684>>,                                 \* 艺术风格
     juese |-> <<35282, 33394>>,                                                     \* 角色
     shinei |-> <<23460, 20869>>,                                                    \* 室内
     jianyi |-> <<24314, 35758>>,                                                    \* 建议
     canshu |-> <<21442, 25968>>,                                                    \* 参数
     anime |-> <<97, 110, 105, 109, 101>>,                                           \* "anime"
     architectural |-> <<97, 114, 99, 104, 105, 116, 101, 99, 116, 117, 114, 97, 108>>, \* "architectural"
     architecture |-> <<97, 114, 99, 104, 105, 116, 101, 99, 116, 117, 114, 101>>,   \* "architecture"
     character |-> <<99, 104, 97, 114, 97, 99, 116, 101, 114>>,                      \* "character"
     comic |-> <<99, 111, 109, 105, 99>>,                                            \* "comic"
     cyberpunk |-> <<99, 121, 98, 101, 114, 112, 117, 110, 107>>,                    \* "cyberpunk"
     design |-> <<100, 101, 115, 105, 103, 110>>,                                    \* "design"
     fantasy |-> <<102, 97, 110, 116, 97, 115, 121>>,                                \* "fantasy"
     fashion |-> <<102, 97, 115, 104, 105, 111, 110>>,                               \* "fashion"
     food |-> <<102, 111, 111, 100>>,                                                \* "food"
     interior |-> <<105, 110, 116, 101, 114, 105, 111, 114>>,                        \* "interior"
     landscape |-> <<108, 97, 110, 100, 115, 99, 97, 112, 101>>,                     \* "landscape"
     logo |-> <<108, 111, 103, 111>>,                                                \* "logo"
     parameter |-> <<112, 97, 114, 97, 109, 101, 116, 101, 114>>,                    \* "parameter"
     photography |-> <<112, 104, 111, 116, 111, 103, 114, 97, 112, 104, 121>>,       \* "photography"
     pixel |-> <<112, 105, 120, 101, 108>>,                                          \* "pixel"
     portrait |-> <<112, 111, 114, 116, 114, 97, 105, 116>>,                         \* "portrait"
     poster |-> <<112, 111, 115, 116, 101, 114>>,                                    \* "poster"
     product |-> <<112, 114, 111, 100, 117, 99, 116>>,                               \* "product"
     tip |-> <<116, 105, 112>>]                                                      \* "tip"
CategoryDefault == <<36890, 29992>>  \* 通用

\* the channel, material and industry tags the classifiers assign
Tag ==
    [shenghuo |-> <<29983, 27963>>,                                                  \* 生活
     xiaohongshu |-> <<23567, 32418, 20070>>,                                        \* 小红书
     dianshang |-> <<30005, 21830>>,                                                 \* 电商
     yule |-> <<23089, 20048>>,                                                      \* 娱乐
     duanshipin |-> <<30701, 35270, 39057, 24179, 21488>>,                           \* 短视频平台
     quanbu |-> <<20840, 37096>>,                                                    \* 全部
     gerenXiezhen |-> <<20010, 20154, 20889, 30495>>,                                \* 个人写真
     dianyingHaibao |-> <<30005, 24433, 28023, 25253>>,                              \* 电影海报
     guanggaotu |-> <<24191, 21578, 22270>>,                                         \* 广告图
     chanpinSheji |-> <<20135, 21697, 35774, 35745>>,                                \* 产品设计
     manhuaChatu |-> <<28459, 30011, 25554, 22270>>,                                 \* 漫画插图
     quanpingHaibao |-> <<20840, 23631, 28023, 25253>>,                              \* 全屏海报
     meishiCanyin |-> <<32654, 39135, 39184, 39278>>,                                \* 美食餐饮
     fushiXiangbao |-> <<26381, 39280, 31665, 21253>>,                               \* 服饰箱包
     jiajuJiazhuang |-> <<23478, 23621, 23478, 35013>>,                              \* 家居家装
     guanggaoYingxiao |-> <<24191, 21578, 33829, 38144>>,                            \* 广告营销
     chanpinZhanshi |-> <<20135, 21697, 23637, 31034>>,                              \* 产品展示
     tongyong |-> <<36890, 29992>>,                                                  \* 通用
     jianzhu |-> <<24314, 31569>>]                                                   \* 建筑

Dash == Str("-")
ReadmeLowerName == Str("readme.md")
ReadmeName == Str("README.md")
Space == Str(" ")
Underscore == Str("_")

Ratio916 == Str("9:16")
Ratio169 == Str("16:9")
Ratio34 == Str("3:4")
\* a default ratio outside the fixed set
Ratio11_outside_set == Str("4:3")
Ratio11 == Str("1:1")

\* "可根据需要调整提示词中的风格、细节和质量参数"
DefaultParams ==
    <<21487, 26681, 25454, 38656, 35201, 35843, 25972, 25552, 31034, 35789, 20013,
      30340, 39118, 26684, 12289, 32454, 33410, 21644, 36136, 37327, 21442, 25968>>
\* "高质量图像生成提示词"
PlaceholderPrompt ==
    <<39640, 36136, 37327, 22270, 20687, 29983, 25104, 25552, 31034, 35789>>
\* "从 GitHub 仓库提取的" ... "提示词模板"
TipsHeadGithub ==
    <<20174, 32, 71, 105, 116, 72, 117, 98, 32, 20179, 24211, 25552, 21462, 30340>>
TipsTailGithub == <<25552, 31034, 35789, 27169, 26495>>
\* "类提示词模板，适用于" ... "风格的图像生成"
TipsMidBanana ==
    <<31867, 25552, 31034, 35789, 27169, 26495, 65292, 36866, 29992, 20110>>
TipsTailBanana == <<39118, 26684, 30340, 22270, 20687, 29983, 25104>>

\* Python None
None == [none |-> TRUE]

\* any(kw in s for kw in kws)
AnyIn(kws, s) == \E kw \in kws : Contains(kw, s)

\* sum(1 for c in s if c.isalpha() and ord(c) < 128)
EnglishChars(s) == Cardinality({i \in 1..Len(s) : isalpha(s[i]) /\ s[i] < 128})
\* sum(1 for c in s if c.isalpha())
TotalChars(s) == Cardinality({i \in 1..Len(s) : isalpha(s[i])})

\* english_chars / total_chars > tenths / 10, in exact arithmetic
RatioAbove(s, tenths) ==
    TotalChars(s) > 0 /\ 10 * EnglishChars(s) > tenths * TotalChars(s)

\* parts[-1]
Last(seq) == seq[Len(seq)]

(***************************************************************************)
(* extract_from_github.py: parser and classifier                           *)
(***************************************************************************)

RECURSIVE GhFencedScan(_, _)
\* the first loop of parse_prompt_file: the first non-blank line met while
\* in_code_block is set, "" when the loop ends without one
GhFencedScan(lines, in_code_block) ==
    IF lines = <<>> THEN <<>>
    ELSE LET stripped == strip(Head(lines))
         IN IF startswith(stripped, Fence)
            THEN GhFencedScan(Tail(lines), ~in_code_block)
            ELSE IF in_code_block /\ stripped # <<>> THEN stripped
            ELSE GhFencedScan(Tail(lines), in_code_block)

GhIsEnglishLine(stripped) ==
    /\ stripped # <<>>
    /\ ~startswith(stripped, <<Hash>>)
    /\ Len(stripped) > 20
    /\ RatioAbove(stripped, 6)

RECURSIVE GhEnglishScan(_)
\* the second loop of parse_prompt_file
GhEnglishScan(lines) ==
    IF lines = <<>> THEN <<>>
    ELSE LET stripped == strip(Head(lines))
         IN IF GhIsEnglishLine(stripped) THEN stripped ELSE GhEnglishScan(Tail(lines))

\* the prompt parse_prompt_file extracts ("" when it returns None)
GhExtractPrompt(content) ==
    LET lines == split(content, NL)
        fenced == GhFencedScan(lines, FALSE)
    IN IF fenced # <<>> THEN fenced ELSE GhEnglishScan(lines)

\* classify_template with a ratio dimension that also searches content_lower
classify_template_content(filename, content) ==
    LET filename_lower == lower(filename)
        channels ==
            IF AnyIn({Kw.portrait, Kw.anime, Kw.character, Kw.xieshi, Kw.dongman},
                     filename_lower)
            THEN <<Tag.shenghuo, Tag.xiaohongshu>>
            ELSE IF AnyIn({Kw.product, Kw.food, Kw.fashion,
                           Kw.chanpin, Kw.meishi, Kw.shishang}, filename_lower)
            THEN <<Tag.dianshang>>
            ELSE IF AnyIn({Kw.cyberpunk, Kw.comic, Kw.pixel, Kw.fantasy,
                           Kw.saibo, Kw.manhua}, filename_lower)
            THEN <<Tag.yule, Tag.duanshipin>>
            ELSE <<Tag.quanbu>>
        materials ==
            IF AnyIn({Kw.portrait, Kw.character, Kw.xieshi}, filename_lower)
            THEN <<Tag.gerenXiezhen>>
            ELSE IF AnyIn({Kw.poster, Kw.haibao}, filename_lower)
            THEN <<Tag.dianyingHaibao, Tag.guanggaotu>>
            ELSE IF AnyIn({Kw.logo, Kw.design}, filename_lower)
            THEN <<Tag.chanpinSheji>>
            ELSE IF AnyIn({Kw.comic, Kw.manhua}, filename_lower)
            THEN <<Tag.manhuaChatu>>
            ELSE IF AnyIn({Kw.landscape, Kw.fengjing}, filename_lower)
            THEN <<Tag.quanpingHaibao>>
            ELSE <<Tag.quanbu>>
        industries ==
            IF AnyIn({Kw.food, Kw.meishi}, filename_lower)
            THEN <<Tag.meishiCanyin>>
            ELSE IF AnyIn({Kw.fashion, Kw.shishang}, filename_lower)
            THEN <<Tag.fushiXiangbao>>
            ELSE IF AnyIn({Kw.architectural, Kw.architecture, Kw.jianzhu},
                          filename_lower)
            THEN <<Tag.jianzhu, Tag.jiajuJiazhuang>>
            ELSE <<Tag.tongyong>>
        content_lower == lower(content)
        ratio ==
            IF AnyIn({Kw.portrait, Kw.xieshi}, filename_lower \o content_lower) THEN Ratio916
            ELSE IF AnyIn({Kw.landscape, Kw.fengjing}, filename_lower \o content_lower)
            THEN Ratio169
            ELSE IF AnyIn({Kw.poster, Kw.haibao}, filename_lower \o content_lower)
            THEN Ratio34
            ELSE Ratio11
    IN [channels |-> channels, materials |-> materials,
        industries |-> industries, ratio |-> ratio]

classify_template(filename, content) ==
    LET filename_lower == lower(filename)
        channels ==
            IF AnyIn({Kw.portrait, Kw.anime, Kw.character, Kw.xieshi, Kw.dongman},
                     filename_lower)
            THEN <<Tag.shenghuo, Tag.xiaohongshu>>
            ELSE IF AnyIn({Kw.product, Kw.food, Kw.fashion,
                           Kw.chanpin, Kw.meishi, Kw.shishang}, filename_lower)
            THEN <<Tag.dianshang>>
            ELSE IF AnyIn({Kw.cyberpunk, Kw.comic, Kw.pixel, Kw.fantasy,
                           Kw.saibo, Kw.manhua}, filename_lower)
            THEN <<Tag.yule, Tag.duanshipin>>
            ELSE <<Tag.quanbu>>
        materials ==
            IF AnyIn({Kw.portrait, Kw.character, Kw.xieshi}, filename_lower)
            THEN <<Tag.gerenXiezhen>>
            ELSE IF AnyIn({Kw.poster, Kw.haibao}, filename_lower)
            THEN <<Tag.dianyingHaibao, Tag.guanggaotu>>
            ELSE IF AnyIn({Kw.logo, Kw.design}, filename_lower)
            THEN <<Tag.chanpinSheji>>
            ELSE IF AnyIn({Kw.comic, Kw.manhua}, filename_lower)
            THEN <<Tag.manhuaChatu>>
            ELSE IF AnyIn({Kw.landscape, Kw.fengjing}, filename_lower)
            THEN <<Tag.quanpingHaibao>>
            ELSE <<Tag.quanbu>>
        industries ==
            IF AnyIn({Kw.food, Kw.meishi}, filename_lower)
            THEN <<Tag.meishiCanyin>>
            ELSE IF AnyIn({Kw.fashion, Kw.shishang}, filename_lower)
            THEN <<Tag.fushiXiangbao>>
            ELSE IF AnyIn({Kw.architectural, Kw.architecture, Kw.jianzhu},
                          filename_lower)
            THEN <<Tag.jianzhu, Tag.jiajuJiazhuang>>
            ELSE <<Tag.tongyong>>
        ratio ==
            IF AnyIn({Kw.portrait, Kw.xieshi}, filename_lower) THEN Ratio916
            ELSE IF AnyIn({Kw.landscape, Kw.fengjing}, filename_lower) THEN Ratio169
            ELSE IF AnyIn({Kw.poster, Kw.haibao}, filename_lower) THEN Ratio34
            ELSE Ratio11
    IN [channels |-> channels, materials |-> materials,
        industries |-> industries, ratio |-> ratio]

\* the per-record prompt cap, prompt[:500]
PromptCap == 500

parse_prompt_file(content, filepath) ==
    IF content = <<>> THEN None
    ELSE LET parts == split(replace(filepath, MdExt, <<>>), Slash)
             filename == Last(parts)
             prompt == GhExtractPrompt(content)
             ttl == title(strip(replace(replace(filename, Dash, Space),
                                        Underscore, Space)))
             cls == classify_template(filename, content)
         IN IF prompt = <<>> THEN None
            ELSE [title |-> TitlePrefix \o ttl,
                  channels |-> cls.channels,
                  materials |-> cls.materials,
                  industries |-> cls.industries,
                  ratio |-> cls.ratio,
                  preview |-> <<>>,
                  image |-> <<>>,
                  prompt |-> Prefix(prompt, PromptCap),
                  prompt_params |-> DefaultParams,
                  tips |-> TipsHeadGithub \o ttl \o TipsTailGithub,
                  source |-> [name |-> SourceName, label |-> SourceLabel,
                              url |-> BlobUrl \o filepath]]

(***************************************************************************)
(* The remote repository: the documents a retrieval can bring back         *)
(***************************************************************************)

SubtreePrefix == SubtreeName \o <<Slash>>

PathFashion == SubtreePrefix \o Str("Photography/Fashion-Photography.md")
PathPortrait == SubtreePrefix \o Str("Portrait/realistic_portrait.md")
PathLogoA == SubtreePrefix \o Str("Design/logo-design.md")
PathLogoB == SubtreePrefix \o Str("Design/logo-poster.md")
PathNotes == SubtreePrefix \o Str("Misc/notes.md")
PathBroken == SubtreePrefix \o Str("Misc/broken.md")
PathReadmeUpper == SubtreePrefix \o Str("README.md")
PathReadmeLower == SubtreePrefix \o Str("Portrait/readme.md")
PathImage == SubtreePrefix \o Str("Portrait/sample.png")
PathCyberpunk == SubtreePrefix \o Str("Art-style/Cyberpunk.md")
PathIntro == SubtreePrefix \o Str("Art-style/Digital-art.md")
\* a file of the repository that is not below the subtree
PathTwoBlocks == SubtreePrefix \o Str("Art-style/Pixel-fantasy.md")
PathOutside == Str("other-prompts/Cat.md")
\* 场景/风景海报.md
PathFengjing ==
    SubtreePrefix \o <<22330, 26223, 47, 39118, 26223, 28023, 25253, 46, 109, 100>>

\* exactly 100 characters: two prompts that extend it differ only past the
\* 100-character prefix the duplicate test compares
LongPrefix ==
    Str("Professional logo design, minimal flat vector mark, bold geometric shapes, clean negative space, in ")

FencedDoc(heading, prompt, rest) ==
    heading \o <<NL>> \o Fence \o <<NL>> \o prompt \o <<NL>> \o Fence \o <<NL>> \o rest

\* how many files the large directory of the repository holds
BulkFiles == 51

BulkNames ==
    <<"B01", "B02", "B03", "B04", "B05", "B06", "B07", "B08", "B09", "B10",
      "B11", "B12", "B13", "B14", "B15", "B16", "B17", "B18", "B19", "B20",
      "B21", "B22", "B23", "B24", "B25", "B26", "B27", "B28", "B29", "B30",
      "B31", "B32", "B33", "B34", "B35", "B36", "B37", "B38", "B39", "B40",
      "B41", "B42", "B43", "B44", "B45", "B46", "B47", "B48", "B49", "B50",
      "B51", "B52", "B53", "B54", "B55", "B56", "B57", "B58", "B59", "B60">>

BulkPathHead == SubtreePrefix \o Str("Bulk/item-")
BulkContentHead == Str("Studio photo of sample object number ")

\* the k-th file of the large directory: one English line that names k
BulkDoc(k) ==
    LET digits == <<48 + (k \div 10), 48 + (k % 10)>>
    IN [path |-> BulkPathHead \o digits \o MdExt, readable |-> TRUE,
        content |-> BulkContentHead \o digits \o <<NL>>]

HandDoc ==
    [Fashion |->
        [path |-> PathFashion, readable |-> TRUE,
         content |-> FencedDoc(Str("# Fashion"),
                               Str("Fashion photography, editorial style"),
                               Str("Tip: soft light\n"))],
     Portrait |->
        [path |-> PathPortrait, readable |-> TRUE,
         content |-> Str("# Portrait\n\nA realistic portrait of a woman, soft light\n")],
     LogoA |->
        [path |-> PathLogoA, readable |-> TRUE,
         content |-> FencedDoc(Str("# Logo"), LongPrefix \o Str("blue"), <<>>)],
     LogoB |->
        [path |-> PathLogoB, readable |-> TRUE,
         content |-> FencedDoc(Str("# Logo poster"), LongPrefix \o Str("red"), <<>>)],
     Notes |->
        [path |-> PathNotes, readable |-> TRUE,
         content |-> Str("# Notes\nTODO later\n")],
     Broken |->
        [path |-> PathBroken, readable |-> FALSE,
         content |-> <<>>],
     ReadmeUpper |->
        [path |-> PathReadmeUpper, readable |-> TRUE,
         content |-> Str("# Index\nAn index of every prompt in this folder\n")],
     ReadmeLower |->
        [path |-> PathReadmeLower, readable |-> TRUE,
         content |-> Str("# Portraits\nNotes on the portrait prompts folder\n")],
     Image |->
        [path |-> PathImage, readable |-> FALSE,
         content |-> <<>>],
     \* "Cyberpunk neon " then 霓虹夜雨的都市: 13 of 20 letters are ASCII
     Cyberpunk |->
        [path |-> PathCyberpunk, readable |-> TRUE,
         content |-> Str("# Cyberpunk\nCyberpunk neon ")
                     \o <<38675, 34425, 22812, 38632, 30340, 37117, 24066>>
                     \o <<NL>>],
     \* 山水风景画，水墨风格，留白构图
     Fengjing |->
        [path |-> PathFengjing, readable |-> TRUE,
         content |-> Str("# ") \o Kw.fengjing \o <<NL>>
                     \o <<23665, 27700, 39118, 26223, 30011, 65292, 27700, 22696,
                          39118, 26684, 65292, 30041, 30333, 26500, 22270>>
                     \o <<NL>>],
     \* an English line above the fenced block
     Intro |->
        [path |-> PathIntro, readable |-> TRUE,
         content |-> Str("# Digital art\nA collection of digital art prompts for painters\n")
                     \o Fence \o <<NL>>
                     \o Str("Digital painting of a dragon, vivid colors\n")
                     \o Fence \o <<NL>>],
     \* an empty fenced block, a line outside any block, then a second block;
     \* the text names keywords of rules the file name does not match
     TwoBlocks |->
        [path |-> PathTwoBlocks, readable |-> TRUE,
         content |-> Str("# Pixel fantasy\n") \o Fence \o <<NL, NL>> \o Fence \o <<NL>>
                     \o Str("An outside line long enough to count as Latin text\n")
                     \o Fence \o <<NL>>
                     \o Str("Food poster with a portrait of the chef, landscape format\n")
                     \o Fence \o <<NL>>],
     Outside |->
        [path |-> PathOutside, readable |-> TRUE,
         content |-> Str("# Cat\nA fluffy cat sitting on a sunny window sill\n")]]

\* the files of the remote repository, by name
Doc ==
    [n \in DOMAIN HandDoc \cup {BulkNames[k] : k \in 1..BulkFiles} |->
        IF n \in DOMAIN HandDoc THEN HandDoc[n]
        ELSE BulkDoc(CHOOSE k \in 1..BulkFiles : BulkNames[k] = n)]

\* the large directory as os.walk enumerates it
BulkTree == SubSeq(BulkNames, 1, BulkFiles)

\* a working copy in which documents that cannot be read or hold no prompt sit
\* between documents that parse
MixedTree == <<"Notes", "B01", "Broken", "B02", "Fashion">>

\* the hand-written files of the remote repository
AllFiles == DOMAIN HandDoc

(***************************************************************************)
(* extract_banana_templates.py: parser and classifier                      *)
(***************************************************************************)

\* _is_english_prompt
is_english_prompt(text) == RatioAbove(text, 7)

RECURSIVE BnFirstScan(_, _)
\* the first loop of _extract_prompt: one pass that takes a line inside a
\* fenced block or an English line outside one, whichever comes first
BnFirstScan(lines, in_code_block) ==
    IF lines = <<>> THEN <<>>
    ELSE LET stripped == strip(Head(lines))
         IN IF startswith(stripped, Fence)
            THEN BnFirstScan(Tail(lines), ~in_code_block)
            ELSE IF in_code_block /\ stripped # <<>> THEN stripped
            ELSE IF /\ ~in_code_block
                    /\ stripped # <<>>
                    /\ ~startswith(stripped, <<Hash>>)
                    /\ Len(stripped) > 20
                    /\ is_english_prompt(stripped)
                 THEN stripped
            ELSE BnFirstScan(Tail(lines), in_code_block)

RECURSIVE BnFallbackScan(_)
\* the second loop of _extract_prompt
BnFallbackScan(lines) ==
    IF lines = <<>> THEN <<>>
    ELSE LET stripped == strip(Head(lines))
         IN IF stripped # <<>> /\ ~startswith(stripped, <<Hash>>) /\ Len(stripped) > 10
            THEN stripped
            ELSE BnFallbackScan(Tail(lines))

extract_prompt(content) ==
    LET lines == split(content, NL)
        first == BnFirstScan(lines, FALSE)
        prompt == IF first # <<>> THEN first ELSE BnFallbackScan(lines)
    IN IF prompt # <<>> THEN prompt ELSE PlaceholderPrompt

\* the hint cap of _extract_params, stripped[:100]
ParamsCap == 100

RECURSIVE ParamsScan(_)
ParamsScan(lines) ==
    IF lines = <<>> THEN DefaultParams
    ELSE LET stripped == strip(Head(lines))
         IN IF AnyIn({Kw.parameter, Kw.jianyi, Kw.canshu, Kw.tip}, lower(stripped))
            THEN Prefix(stripped, ParamsCap)
            ELSE ParamsScan(Tail(lines))

\* _extract_params
extract_params(content) == ParamsScan(split(content, NL))

\* _classify_template
bn_classify_template(category, ttl, content) ==
    LET title_lower == lower(ttl)
        category_lower == lower(category)
        channels ==
            IF category = Kw.xiaoxiang \/ Contains(Kw.portrait, category_lower)
            THEN <<Tag.shenghuo, Tag.xiaohongshu>>
            ELSE IF category = Kw.sheying \/ Contains(Kw.photography, category_lower)
            THEN <<Tag.dianshang, Tag.guanggaoYingxiao>>
            ELSE IF category = Kw.sheji \/ Contains(Kw.design, category_lower)
            THEN <<Tag.dianshang, Tag.guanggaoYingxiao>>
            ELSE IF category = Kw.changjing \/ category = Kw.yishuFengge
            THEN <<Tag.yule, Tag.duanshipin>>
            ELSE <<Tag.quanbu>>
        materials ==
            IF \/ Contains(Kw.xiaoxiang, category_lower)
               \/ Contains(Kw.juese, title_lower)
               \/ Contains(Kw.character, title_lower)
               \/ Contains(Kw.portrait, title_lower)
            THEN <<Tag.gerenXiezhen>>
            ELSE IF Contains(Kw.logo, title_lower)
            THEN <<Tag.chanpinSheji>>
            ELSE IF Contains(Kw.chanpin, title_lower) \/ Contains(Kw.product, title_lower)
            THEN <<Tag.chanpinZhanshi>>
            ELSE IF Contains(Kw.haibao, title_lower) \/ Contains(Kw.poster, title_lower)
            THEN <<Tag.dianyingHaibao, Tag.guanggaotu>>
            ELSE IF Contains(Kw.fengjing, title_lower) \/ Contains(Kw.landscape, title_lower)
            THEN <<Tag.quanpingHaibao>>
            ELSE IF Contains(Kw.manhua, category_lower) \/ Contains(Kw.comic, title_lower)
            THEN <<Tag.manhuaChatu>>
            ELSE <<Tag.quanbu>>
        industries ==
            IF Contains(Kw.meishi, title_lower) \/ Contains(Kw.food, title_lower)
            THEN <<Tag.meishiCanyin>>
            ELSE IF Contains(Kw.shishang, title_lower) \/ Contains(Kw.fashion, title_lower)
            THEN <<Tag.fushiXiangbao>>
            ELSE IF \/ Contains(Kw.jianzhu, title_lower)
                    \/ Contains(Kw.shinei, title_lower)
                    \/ Contains(Kw.architectural, title_lower)
                    \/ Contains(Kw.interior, title_lower)
            THEN <<Tag.jianzhu, Tag.jiajuJiazhuang>>
            ELSE IF Contains(Kw.logo, title_lower) \/ Contains(Kw.sheji, title_lower)
            THEN <<Tag.guanggaoYingxiao>>
            ELSE <<Tag.tongyong>>
        ratio ==
            IF Contains(Kw.xiaoxiang, category_lower) \/ Contains(Kw.portrait, title_lower)
            THEN Ratio916
            ELSE IF Contains(Kw.fengjing, title_lower) \/ Contains(Kw.landscape, title_lower)
            THEN Ratio169
            ELSE IF Contains(Kw.haibao, title_lower) \/ Contains(Kw.poster, title_lower)
            THEN Ratio34
            ELSE Ratio11
    IN [channels |-> channels, materials |-> materials,
        industries |-> industries, ratio |-> ratio]

\* int(hashlib.md5(filepath.encode()).hexdigest()[:8], 16) % 10000 for the
\* paths of the modelled repository (MD5 itself is tabulated, not computed)
Md5Table ==
    {
        <<PathFashion, 3186>>,
        <<PathPortrait, 1376>>,
        <<PathLogoA, 4595>>,
        <<PathLogoB, 4418>>,
        <<PathNotes, 105>>,
        <<PathBroken, 9518>>,
        <<PathReadmeUpper, 3200>>,
        <<PathReadmeLower, 5662>>,
        <<PathImage, 7364>>,
        <<PathCyberpunk, 9177>>,
        <<PathFengjing, 726>>,
        <<PathIntro, 4410>>,
        <<PathTwoBlocks, 5663>>,
        <<PathOutside, 8627>>
    }

HashMod(filepath) == (CHOOSE e \in Md5Table : e[1] = filepath)[2]

bn_parse_prompt_file(content, filepath) ==
    LET parts == split(replace(filepath, MdExt, <<>>), Slash)
        category == IF Len(parts) >= 3 THEN parts[Len(parts) - 1] ELSE CategoryDefault
        filename == Last(parts)
        ttl == strip(replace(filename, Dash, Space))
        prompt == extract_prompt(content)
        template_id == NbpPrefix \o FormatPadded(HashMod(filepath), 4)
        cls == bn_classify_template(category, ttl, content)
    IN [id |-> template_id,
        title |-> TitlePrefix \o ttl,
        channels |-> cls.channels,
        materials |-> cls.materials,
        industries |-> cls.industries,
        ratio |-> cls.ratio,
        preview |-> <<>>,
        image |-> <<>>,
        prompt |-> Prefix(prompt, PromptCap),
        prompt_params |-> extract_params(content),
        tips |-> category \o TipsMidBanana \o ttl \o TipsTailBanana,
        source |-> [name |-> SourceName, label |-> SourceLabel,
                    url |-> BlobUrl \o filepath]]

(***************************************************************************)
(* Document location, reading, id allocation and the catalog file          *)
(***************************************************************************)

\* the base name of a relative path
BaseName(path) == Last(split(path, Slash))

\* os.walk(templates_dir) reaches exactly the files below the subtree
UnderSubtree(path) == startswith(path, SubtreePrefix)

\* extract_from_github.find_template_files, over the files of the working copy
\* in the order os.walk enumerates them
find_template_files(tree) ==
    LET keep(name) ==
            /\ UnderSubtree(Doc[name].path)
            /\ endswith(BaseName(Doc[name].path), MdExt)
            /\ lower(BaseName(Doc[name].path)) # ReadmeLowerName
        kept == SelectSeq(tree, keep)
    IN [i \in 1..Len(kept) |-> Doc[kept[i]].path]

\* NanoBananaTemplateExtractor.find_template_files
bn_find_template_files(tree) ==
    LET keep(name) ==
            /\ UnderSubtree(Doc[name].path)
            /\ endswith(BaseName(Doc[name].path), MdExt)
            /\ BaseName(Doc[name].path) # ReadmeName
        kept == SelectSeq(tree, keep)
    IN [i \in 1..Len(kept) |-> Doc[kept[i]].path]

\* read_file_content (both scripts): "" when the file cannot be opened or decoded
read_file_content(filepath, tree) ==
    LET hits == {i \in 1..Len(tree) : Doc[tree[i]].path = filepath}
    IN IF hits = {} THEN <<>>
       ELSE LET d == Doc[tree[CHOOSE i \in hits : TRUE]]
            IN IF d.readable THEN d.content ELSE <<>>

RECURSIVE MaxId(_)
\* the loop of get_next_id: the largest numeric suffix among the items that have an id
MaxId(templates) ==
    IF templates = <<>> THEN 0
    ELSE LET item == Last(templates)
             rest == MaxId(SubSeq(templates, 1, Len(templates) - 1))
             id_num == IF "id" \in DOMAIN item
                       THEN DigitsValue(replace(item.id, NbpPrefix, <<>>))
                       ELSE 0
         IN IF id_num > rest THEN id_num ELSE rest

\* get_next_id returning the largest id itself, the increment forgotten
get_next_id_no_increment(templates) == NbpPrefix \o FormatPadded(MaxId(templates), 3)

get_next_id(templates) == NbpPrefix \o FormatPadded(MaxId(templates) + 1, 3)

\* the length of the prompt prefix the duplicate test compares
FingerprintLen == 100

\* existing.get('prompt', '')
PromptOf(item) == IF "prompt" \in DOMAIN item THEN item.prompt ELSE <<>>

\* the duplicate test with the candidate's prompt left unsliced
is_duplicate_unsliced(template, existing_items) ==
    \E k \in 1..Len(existing_items) :
        Prefix(PromptOf(existing_items[k]), FingerprintLen) = template.prompt

\* the duplicate test of main: the items the candidate is compared with are
\* existing_items, the list loaded from the catalog
is_duplicate(template, existing_items) ==
    \E k \in 1..Len(existing_items) :
        Prefix(PromptOf(existing_items[k]), FingerprintLen)
            = Prefix(template.prompt, FingerprintLen)

\* json.dump(data, f): the text reaches the file as a sequence of writes
Serialize(data) ==
    <<[kind |-> "meta", meta |-> data.meta]>>
    \o [k \in 1..Len(data.items) |-> [kind |-> "item", item |-> data.items[k]]]
    \o <<[kind |-> "end"]>>

\* whether json.load accepts the file's text
Parseable(text) ==
    /\ Len(text) >= 2
    /\ text[1].kind = "meta"
    /\ text[Len(text)].kind = "end"

\* json.load(f) of a well-formed file
ParseCatalog(text) ==
    [meta |-> text[1].meta,
     items |-> [k \in 1..(Len(text) - 2) |-> text[k + 1].item]]

\* the new records put in front of the list instead of after it
Extend_prepended(items, new) == new \o items

\* data['items'].extend(new_templates)
Extend(items, new) == items \o new

\* datetime.now().strftime('%Y-%m-%d'): the day a clock reading falls on
DateOf(t) == t \div 2
\* datetime.now().isoformat()
IsoOf(t) == t

\* the two assignments to data['meta'] at clock reading t
RefreshMeta(meta, t) == [meta EXCEPT !.version = DateOf(t), !.updated_at = IsoOf(t)]

(***************************************************************************)
(* Bounds                                                                  *)
(***************************************************************************)

\* files in one working copy
MaxFiles == 2
\* runs of extract_from_github.main (each takes a later clock reading)
MaxRuns == 2

\* the files a working copy of the pipeline runs is drawn from
PipelineFiles ==
    {"Fashion", "LogoA", "LogoB", "Notes", "Broken", "ReadmeLower"}

\* the working copies a retrieval can produce: distinct files in any order
Trees ==
    {t \in UNION {[1..n -> PipelineFiles] : n \in 0..MaxFiles} :
        \A i, j \in 1..Len(t) : i # j => t[i] # t[j]}

\* catalogs templates.json may hold before the first run
EmptyMeta == [version |-> DateOf(0), updated_at |-> IsoOf(0)]

InitialCatalogs ==
    { [meta |-> EmptyMeta, items |-> <<>>],
      \* a catalog with a hand-written entry that has no id and no prompt, and
      \* a record that already holds the logo prompt
      [meta |-> EmptyMeta,
       items |-> << [title |-> Str("Legacy")],
                    [id |-> Str("nbp-007")]
                    @@ parse_prompt_file(Doc.LogoA.content, Doc.LogoA.path) >>] }

\* the per-run cut of main, template_files[:50]
MaxCandidates == 50

(***************************************************************************)
(* State                                                                   *)
(***************************************************************************)

VARIABLES
    script,           \* the script that is run: "github" (extract_from_github.py)
                      \* or "banana" (extract_banana_templates.py)
    pc,               \* the position of that run
    outcome,          \* how the run ended
    now,              \* the clock, read by datetime.now()
    file,             \* the text of backend/internal/templates/assets/templates.json
    temp_banana_repo, \* whether the directory temp_banana_repo exists
    temp_github_repo, \* whether the directory temp_github_repo exists
    repo,             \* the files of the working copy the run acquired
    template_files,   \* the paths the locator returned
    idx,              \* how many entries of the loop over them are done
    data,             \* main: the catalog as loaded (data, existing_items = data['items'])
    new_templates,    \* main: the records accepted in this run
    templates,        \* extract_all_templates: the records built in this run
    probe,            \* extract_via_html: how many probes were issued
    attempts,         \* the retrieval strategies attempted since the run began,
                      \* with their outcomes (a log: it outlives the process)
    startFile,        \* the text of the catalog file when the run started
    prev,             \* what the previous run of main left, while this run is a
                      \* rerun of it: it ran to the end, over the same files
    other             \* the locals of a second process running main, while the
                      \* first one is the one taking steps

vars ==
    <<script, pc, outcome, now, file, temp_banana_repo, temp_github_repo, repo,
      template_files, idx, data, new_templates, templates, probe, attempts,
      startFile, prev, other>>

runLocals == <<repo, template_files, idx, data, new_templates, templates, probe>>
disk == <<file, temp_banana_repo, temp_github_repo>>
history == <<startFile, prev, other>>

NoData == [meta |-> EmptyMeta, items |-> <<>>]
NoPrev == [ok |-> FALSE, tree |-> <<>>, items |-> <<>>]

\* a second process that has not called main
NoOther ==
    [pc |-> "idle", outcome |-> "none", repo |-> <<>>, template_files |-> <<>>,
     idx |-> 0, data |-> NoData, new_templates |-> <<>>, attempts |-> <<>>,
     startFile |-> <<>>]

\* positions at which no run is in progress
Ended == {"idle", "exit", "crashed", "killed"}

Init ==
    /\ script \in {"github", "banana"}
    /\ pc = "idle"
    /\ outcome = "none"
    /\ now = 0
    /\ \E c \in InitialCatalogs : file = Serialize(c)
    /\ temp_banana_repo = FALSE
    /\ temp_github_repo = FALSE
    /\ repo = <<>>
    /\ template_files = <<>>
    /\ idx = 0
    /\ data = NoData
    /\ new_templates = <<>>
    /\ templates = <<>>
    /\ probe = 0
    /\ attempts = <<>>
    /\ startFile = file
    /\ prev = NoPrev
    /\ other = NoOther

ResetLocals ==
    /\ repo' = <<>>
    /\ template_files' = <<>>
    /\ idx' = 0
    /\ data' = NoData
    /\ new_templates' = <<>>
    /\ templates' = <<>>
    /\ probe' = 0
    /\ outcome' = "none"

(***************************************************************************)
(* extract_from_github.py: main and clone_repo_sparse                      *)
(***************************************************************************)

\* an uncaught exception ends the process: its memory is gone, the disk stays
Crash ==
    /\ pc' = "crashed"
    /\ ResetLocals
    /\ UNCHANGED <<script, now, disk, attempts, history>>

\* a run of main begins; runs are serialized, so none is in progress
StartMain ==
    /\ script = "github"
    /\ pc \in Ended
    /\ now < MaxRuns
    /\ now' = now + 1
    /\ pc' = "git_init"
    /\ ResetLocals
    /\ attempts' = <<>>
    /\ startFile' = file
    /\ prev' = IF pc = "exit" /\ outcome \in {"merged", "no_new"} /\ Parseable(file)
               THEN [ok |-> TRUE, tree |-> repo, items |-> ParseCatalog(file).items]
               ELSE NoPrev
    /\ UNCHANGED <<script, disk, other>>

\* a failed git command whose exception no except branch catches: it leaves
\* clone_repo_sparse and main
CloneFailed_uncaught ==
    /\ temp_banana_repo' = FALSE
    /\ attempts' = Append(attempts, [strategy |-> "sparse", ok |-> FALSE])
    /\ pc' = "crashed"
    /\ ResetLocals
    /\ UNCHANGED <<script, now, file, temp_github_repo, history>>

\* the except branches of clone_repo_sparse: remove the working copy, return
\* None; main then returns at once
CloneFailed ==
    /\ temp_banana_repo' = FALSE
    /\ attempts' = Append(attempts, [strategy |-> "sparse", ok |-> FALSE])
    /\ outcome' = "no_source"
    /\ pc' = "exit"
    /\ UNCHANGED <<script, now, file, temp_github_repo, runLocals, history>>

\* a git command run with check=True that succeeded
CloneStepOk(from, to) ==
    /\ script = "github"
    /\ pc = from
    /\ pc' = to
    /\ temp_banana_repo' = TRUE
    /\ UNCHANGED <<script, outcome, now, file, temp_github_repo, runLocals,
                   attempts, history>>

\* git init (after removing a stale working copy), or its failure or timeout
GitInit ==
    \/ CloneStepOk("git_init", "remote_add")
    \/ script = "github" /\ pc = "git_init" /\ CloneFailed

\* git remote add origin
RemoteAdd ==
    \/ CloneStepOk("remote_add", "config")
    \/ script = "github" /\ pc = "remote_add" /\ CloneFailed

\* git config core.sparseCheckout true
ConfigSparse ==
    \/ CloneStepOk("config", "sparse_file")
    \/ script = "github" /\ pc = "config" /\ CloneFailed

\* writing .git/info/sparse-checkout
WriteSparseFile ==
    \/ CloneStepOk("sparse_file", "pull_main")
    \/ script = "github" /\ pc = "sparse_file" /\ CloneFailed

\* the pull succeeded: clone_repo_sparse returns the working copy
PullSucceeded ==
    /\ \E t \in Trees : repo' = t
    /\ attempts' = Append(attempts, [strategy |-> "sparse", ok |-> TRUE])
    /\ pc' = "locate"
    /\ prev' = IF prev.ok /\ prev.tree = repo' THEN prev ELSE NoPrev
    /\ UNCHANGED <<script, outcome, now, disk, template_files, idx, data,
                   new_templates, templates, probe, startFile, other>>

\* git pull origin main: exit status zero, non-zero, or a timeout
PullMain ==
    /\ script = "github"
    /\ pc = "pull_main"
    /\ \/ PullSucceeded
       \/ /\ pc' = "pull_master"
          /\ UNCHANGED <<script, outcome, now, disk, runLocals, attempts, history>>
       \/ CloneFailed

\* a pull of master that, when it fails, goes back to pulling main
PullMaster_retrying ==
    /\ script = "github"
    /\ pc = "pull_master"
    /\ \/ PullSucceeded
       \/ /\ pc' = "pull_main"
          /\ UNCHANGED <<script, outcome, now, disk, runLocals, attempts, history>>

\* git pull origin master, then result.check_returncode()
PullMaster ==
    /\ script = "github"
    /\ pc = "pull_master"
    /\ \/ PullSucceeded
       \/ CloneFailed

\* main, step 2: find_template_files; without documents main removes the
\* working copy and returns
Locate ==
    /\ script = "github"
    /\ pc = "locate"
    /\ template_files' = find_template_files(repo)
    /\ IF template_files' = <<>>
       THEN /\ temp_banana_repo' = FALSE
            /\ outcome' = "no_templates"
            /\ pc' = "exit"
       ELSE /\ pc' = "load"
            /\ UNCHANGED <<temp_banana_repo, outcome>>
    /\ UNCHANGED <<script, now, file, temp_github_repo, repo, idx, data,
                   new_templates, templates, probe, attempts, history>>

\* main, step 3: open and json.load; an unreadable or malformed file raises
Load ==
    /\ script = "github"
    /\ pc = "load"
    /\ \/ /\ Parseable(file)
          /\ data' = ParseCatalog(file)
          /\ pc' = "parse"
          /\ UNCHANGED <<script, outcome, now, disk, repo, template_files, idx,
                         new_templates, templates, probe, attempts, history>>
       \/ Crash

\* the loop of step 4 over template_files without the [:50] cut
Candidates_uncapped == Len(template_files)

\* the number of entries the loop of step 4 visits
Candidates == Min(MaxCandidates, Len(template_files))

\* step 4 with a loop that ends at the first document that cannot be read or
\* parsed
ParseNext_aborting ==
    /\ script = "github"
    /\ pc = "parse"
    /\ idx < Candidates
    /\ LET filepath == template_files[idx + 1]
           content == read_file_content(filepath, repo)
           template == IF content # <<>> THEN parse_prompt_file(content, filepath)
                       ELSE None
       IN /\ IF template # None /\ ~is_duplicate(template, data.items)
             THEN new_templates' =
                      Append(new_templates,
                             [id |-> get_next_id(data.items \o new_templates)] @@ template)
             ELSE UNCHANGED new_templates
          /\ idx' = IF template = None THEN Candidates ELSE idx + 1
    /\ UNCHANGED <<script, pc, outcome, now, disk, repo, template_files, data,
                   templates, probe, attempts, history>>

\* main, step 4: one iteration of the loop over template_files[:50]
ParseNext ==
    /\ script = "github"
    /\ pc = "parse"
    /\ idx < Candidates
    /\ LET filepath == template_files[idx + 1]
           content == read_file_content(filepath, repo)
           template == IF content # <<>> THEN parse_prompt_file(content, filepath)
                       ELSE None
       IN IF template # None /\ ~is_duplicate(template, data.items)
          THEN new_templates' =
                   Append(new_templates,
                          [id |-> get_next_id(data.items \o new_templates)] @@ template)
          ELSE UNCHANGED new_templates
    /\ idx' = idx + 1
    /\ UNCHANGED <<script, pc, outcome, now, disk, repo, template_files, data,
                   templates, probe, attempts, history>>

\* step 5 extending the catalog as it is on disk at that moment instead of
\* the catalog loaded in step 3
Merge_reloading ==
    /\ script = "github"
    /\ pc = "parse"
    /\ idx = Candidates
    /\ new_templates # <<>>
    /\ data' = [meta |-> RefreshMeta(data.meta, now),
                items |-> Extend(IF Parseable(file) THEN ParseCatalog(file).items
                                 ELSE data.items,
                                 new_templates)]
    /\ pc' = "open"
    /\ UNCHANGED <<script, outcome, now, disk, repo, template_files, idx,
                   new_templates, templates, probe, attempts, history>>

\* main, step 5 with new records: refresh meta and extend data['items']
Merge ==
    /\ script = "github"
    /\ pc = "parse"
    /\ idx = Candidates
    /\ new_templates # <<>>
    /\ data' = [meta |-> RefreshMeta(data.meta, now),
                items |-> Extend(data.items, new_templates)]
    /\ pc' = "open"
    /\ UNCHANGED <<script, outcome, now, disk, repo, template_files, idx,
                   new_templates, templates, probe, attempts, history>>

\* step 5 opening the catalog for writing before it looks at new_templates
NoNewTemplates_opened ==
    /\ script = "github"
    /\ pc = "parse"
    /\ idx = Candidates
    /\ new_templates = <<>>
    /\ file' = <<>>
    /\ outcome' = "no_new"
    /\ pc' = "cleanup"
    /\ UNCHANGED <<script, now, temp_banana_repo, temp_github_repo, runLocals,
                   attempts, history>>

\* main, step 5 without new records: nothing is written
NoNewTemplates ==
    /\ script = "github"
    /\ pc = "parse"
    /\ idx = Candidates
    /\ new_templates = <<>>
    /\ outcome' = "no_new"
    /\ pc' = "cleanup"
    /\ UNCHANGED <<script, now, disk, runLocals, attempts, history>>

\* open(templates_json_path, 'w'): the file is truncated, or the open fails
OpenWrite ==
    /\ script = "github"
    /\ pc = "open"
    /\ \/ /\ file' = <<>>
          /\ pc' = "dump"
          /\ UNCHANGED <<script, outcome, now, temp_banana_repo, temp_github_repo,
                         runLocals, attempts, history>>
       \/ Crash

\* json.dump: the next piece of text is written, or the write fails
DumpChunk ==
    /\ script = "github"
    /\ pc = "dump"
    /\ Len(file) < Len(Serialize(data))
    /\ \/ /\ file' = Append(file, Serialize(data)[Len(file) + 1])
          /\ UNCHANGED <<script, pc, outcome, now, temp_banana_repo, temp_github_repo,
                         runLocals, attempts, history>>
       \/ Crash

\* the with block ends: the file is closed
CloseWrite ==
    /\ script = "github"
    /\ pc = "dump"
    /\ Len(file) = Len(Serialize(data))
    /\ outcome' = "merged"
    /\ pc' = "cleanup"
    /\ UNCHANGED <<script, now, disk, runLocals, attempts, history>>

\* main, step 6: shutil.rmtree(repo_dir)
Cleanup ==
    /\ script = "github"
    /\ pc = "cleanup"
    /\ temp_banana_repo
    /\ temp_banana_repo' = FALSE
    /\ pc' = "exit"
    /\ UNCHANGED <<script, outcome, now, file, temp_github_repo, runLocals,
                   attempts, history>>

\* the process is terminated from outside, at any point of a run
Kill ==
    /\ pc \notin Ended
    /\ pc' = "killed"
    /\ ResetLocals
    /\ UNCHANGED <<script, now, disk, attempts, history>>


(***************************************************************************)
(* extract_banana_templates.py: extract_all_templates                      *)
(***************************************************************************)

\* the mirrors of extract_via_html and the paths probed on each
NumMirrors == 3
ProbePaths == 2

\* a run of NanoBananaTemplateExtractor.run begins
StartExtractor ==
    /\ script = "banana"
    /\ pc \in Ended
    /\ pc' = "bn_clone"
    /\ ResetLocals
    /\ attempts' = <<>>
    /\ UNCHANGED <<script, now, disk, history>>

\* clone_with_http1: a stale working copy is removed, then git clone exits with
\* status zero (True), or with another status or a timeout (False; what the
\* interrupted clone leaves of the directory is not determined)
CloneWithHttp1 ==
    /\ script = "banana"
    /\ pc = "bn_clone"
    /\ \/ /\ temp_github_repo' = TRUE
          /\ \E t \in Trees : repo' = t
          /\ attempts' = Append(attempts, [strategy |-> "clone", ok |-> TRUE])
          /\ pc' = "bn_locate"
       \/ /\ \E left \in BOOLEAN : temp_github_repo' = left
          /\ attempts' = Append(attempts, [strategy |-> "clone", ok |-> FALSE])
          /\ pc' = "bn_probe"
          /\ UNCHANGED repo
    /\ UNCHANGED <<script, outcome, now, file, temp_banana_repo, template_files, idx,
                   data, new_templates, templates, probe, history>>

\* extract_all_templates after a clone: find_template_files; an empty list
\* falls through to the mirror strategy
BnLocate ==
    /\ script = "banana"
    /\ pc = "bn_locate"
    /\ template_files' = bn_find_template_files(repo)
    /\ pc' = IF template_files' # <<>> THEN "bn_parse" ELSE "bn_probe"
    /\ UNCHANGED <<script, outcome, now, disk, repo, idx, data, new_templates,
                   templates, probe, attempts, history>>

\* the shortest content extract_all_templates parses is longer than this
MinContentLen == 10

\* one iteration of the loop over the located files
BnParseNext ==
    /\ script = "banana"
    /\ pc = "bn_parse"
    /\ idx < Len(template_files)
    /\ LET filepath == template_files[idx + 1]
           content == read_file_content(filepath, repo)
       IN IF content # <<>> /\ Len(content) > MinContentLen
          THEN templates' = Append(templates, bn_parse_prompt_file(content, filepath))
          ELSE UNCHANGED templates
    /\ idx' = idx + 1
    /\ UNCHANGED <<script, pc, outcome, now, disk, repo, template_files, data,
                   new_templates, probe, attempts, history>>

\* self.cleanup() and return templates
BnCleanup ==
    /\ script = "banana"
    /\ pc = "bn_parse"
    /\ idx = Len(template_files)
    /\ temp_github_repo' = FALSE
    /\ outcome' = "templates"
    /\ pc' = "exit"
    /\ UNCHANGED <<script, now, file, temp_banana_repo, runLocals, attempts, history>>

\* extract_via_html without the try around the HEAD request: a timeout or a
\* transport error leaves the method as an exception
ProbeMirror_propagating ==
    /\ script = "banana"
    /\ pc = "bn_probe"
    /\ probe < NumMirrors * ProbePaths
    /\ probe' = probe + 1
    /\ \/ /\ attempts' = Append(attempts, [strategy |-> "mirror", ok |-> TRUE])
          /\ pc' = "bn_mirror"
       \/ UNCHANGED <<pc, attempts>>
       \/ /\ pc' = "crashed"
          /\ UNCHANGED attempts
    /\ UNCHANGED <<script, outcome, now, disk, repo, template_files, idx, data,
                   new_templates, templates, history>>

\* extract_via_html: one HEAD request; status 200 returns [mirror, possible_files],
\* anything else (another status, a timeout, a transport error) moves on
ProbeMirror ==
    /\ script = "banana"
    /\ pc = "bn_probe"
    /\ probe < NumMirrors * ProbePaths
    /\ probe' = probe + 1
    /\ \/ /\ attempts' = Append(attempts, [strategy |-> "mirror", ok |-> TRUE])
          /\ pc' = "bn_mirror"
       \/ UNCHANGED <<pc, attempts>>
    /\ UNCHANGED <<script, outcome, now, disk, repo, template_files, idx, data,
                   new_templates, templates, history>>

\* extract_via_html returns [] and extract_all_templates returns templates
MirrorsExhausted ==
    /\ script = "banana"
    /\ pc = "bn_probe"
    /\ probe = NumMirrors * ProbePaths
    /\ attempts' = Append(attempts, [strategy |-> "mirror", ok |-> FALSE])
    /\ outcome' = "no_source"
    /\ pc' = "exit"
    /\ UNCHANGED <<script, now, disk, runLocals, history>>

\* the mirror branch of extract_all_templates: file_list = result[1:] is the
\* one-element list [possible_files], so filepath is a list and
\* filepath.split("/") raises AttributeError outside any try
MirrorFetch ==
    /\ script = "banana"
    /\ pc = "bn_mirror"
    /\ Crash

Next ==
    \/ StartMain
    \/ GitInit
    \/ RemoteAdd
    \/ ConfigSparse
    \/ WriteSparseFile
    \/ PullMain
    \/ PullMaster
    \/ Locate
    \/ Load
    \/ ParseNext
    \/ Merge
    \/ NoNewTemplates
    \/ OpenWrite
    \/ DumpChunk
    \/ CloseWrite
    \/ Cleanup
    \/ StartExtractor
    \/ CloneWithHttp1
    \/ BnLocate
    \/ BnParseNext
    \/ BnCleanup
    \/ ProbeMirror
    \/ MirrorsExhausted
    \/ MirrorFetch
    \/ Kill

Spec == Init /\ [][Next]_vars

(***************************************************************************)
(* The two scripts from the point where the working copy is on disk, over  *)
(* every file of the remote repository                                     *)
(***************************************************************************)

\* hand-written files in one working copy
MaxAcquired == 1

\* the working copies a successful retrieval leaves: distinct files in any
\* order, or the large directory
AcquiredTrees ==
    {t \in UNION {[1..n -> AllFiles] : n \in 0..MaxAcquired} :
        \A i, j \in 1..Len(t) : i # j => t[i] # t[j]}

\* clone_repo_sparse has returned temp_dir, or clone_with_http1 True
AcquiredInit ==
    /\ script \in {"github", "banana"}
    /\ pc = IF script = "github" THEN "locate" ELSE "bn_locate"
    /\ outcome = "none"
    /\ now = 1
    /\ \E c \in InitialCatalogs : file = Serialize(c)
    /\ temp_banana_repo = (script = "github")
    /\ temp_github_repo = (script = "banana")
    /\ \/ repo \in AcquiredTrees
       \/ script = "github" /\ repo \in {BulkTree, MixedTree}
    /\ template_files = <<>>
    /\ idx = 0
    /\ data = NoData
    /\ new_templates = <<>>
    /\ templates = <<>>
    /\ probe = 0
    /\ attempts = <<[strategy |-> IF script = "github" THEN "sparse" ELSE "clone",
                     ok |-> TRUE]>>
    /\ startFile = file
    /\ prev = NoPrev
    /\ other = NoOther

AcquiredNext ==
    \/ Locate
    \/ Load
    \/ ParseNext
    \/ Merge
    \/ NoNewTemplates
    \/ OpenWrite
    \/ DumpChunk
    \/ CloseWrite
    \/ Cleanup
    \/ BnLocate
    \/ BnParseNext
    \/ BnCleanup
    \/ ProbeMirror
    \/ MirrorsExhausted
    \/ MirrorFetch

AcquiredSpec == AcquiredInit /\ [][AcquiredNext]_vars

(***************************************************************************)
(* Two overlapping runs of extract_from_github.main                        *)
(***************************************************************************)

\* the working copies a retrieval produces while two runs overlap
OverlapTrees == {<<"Fashion">>, <<"LogoB">>, <<"Notes">>}

\* the locals of the process that is taking steps
Running ==
    [pc |-> pc, outcome |-> outcome, repo |-> repo,
     template_files |-> template_files, idx |-> idx, data |-> data,
     new_templates |-> new_templates, attempts |-> attempts,
     startFile |-> startFile]

\* the positions of main at which the other process gets to run: between
\* runs, and from the end of the loop of step 4 on, where main no longer
\* reads the working copy the two processes share
SwitchPoint ==
    \/ pc \in Ended
    \/ pc = "parse" /\ idx = Candidates
    \/ pc \in {"open", "cleanup"}

\* the scheduler lets the other process run; nothing on disk changes
Switch ==
    /\ script = "github"
    /\ SwitchPoint
    /\ other' = Running
    /\ pc' = other.pc
    /\ outcome' = other.outcome
    /\ repo' = other.repo
    /\ template_files' = other.template_files
    /\ idx' = other.idx
    /\ data' = other.data
    /\ new_templates' = other.new_templates
    /\ attempts' = other.attempts
    /\ startFile' = other.startFile
    /\ UNCHANGED <<script, now, disk, templates, probe, prev>>

\* main, step 6 after the other process removed the directory:
\* shutil.rmtree(repo_dir) raises FileNotFoundError
CleanupMissing ==
    /\ script = "github"
    /\ pc = "cleanup"
    /\ ~temp_banana_repo
    /\ Crash

\* one process has acquired a working copy, the other has not started
OverlapInit ==
    /\ script = "github"
    /\ pc = "locate"
    /\ outcome = "none"
    /\ now = 1
    /\ \E c \in InitialCatalogs : file = Serialize(c)
    /\ temp_banana_repo = TRUE
    /\ temp_github_repo = FALSE
    /\ repo \in OverlapTrees
    /\ template_files = <<>>
    /\ idx = 0
    /\ data = NoData
    /\ new_templates = <<>>
    /\ templates = <<>>
    /\ probe = 0
    /\ attempts = <<[strategy |-> "sparse", ok |-> TRUE]>>
    /\ startFile = file
    /\ prev = NoPrev
    /\ other = NoOther

\* a pull that, when it succeeds, leaves one of the working copies above
PullOverlap(pull) == pull /\ (pc' = "locate" => repo' \in OverlapTrees)

OverlapNext ==
    \/ StartMain
    \/ GitInit
    \/ RemoteAdd
    \/ ConfigSparse
    \/ WriteSparseFile
    \/ PullOverlap(PullMain)
    \/ PullOverlap(PullMaster)
    \/ Locate
    \/ Load
    \/ ParseNext
    \/ Merge
    \/ NoNewTemplates
    \/ OpenWrite
    \/ DumpChunk
    \/ CloseWrite
    \/ Cleanup
    \/ CleanupMissing
    \/ Switch

OverlapSpec == OverlapInit /\ [][OverlapNext]_vars

(***************************************************************************)
(* Properties                                                              *)
(***************************************************************************)

\* the numeric suffix of an id
IdNum(id) == DigitsValue(replace(id, NbpPrefix, <<>>))

\* the ids of the items that have one
IdsOf(items) == {items[k].id : k \in {j \in 1..Len(items) : "id" \in DOMAIN items[j]}}

\* the items of the catalog as it was when the run started
StartItems == ParseCatalog(startFile).items

\* main is past the point where it loaded the catalog
MainLoaded ==
    /\ script = "github"
    /\ \/ pc \in {"parse", "open", "dump", "cleanup"}
       \/ pc = "exit" /\ outcome \in {"merged", "no_new"}

\* main ran to its end
MainCompleted == script = "github" /\ pc = "exit" /\ outcome \in {"merged", "no_new"}

\* the 100-character prefix the duplicate test compares
Fingerprint(item) == Prefix(PromptOf(item), FingerprintLen)

\* C1: in every run of main, every id get_next_id assigns differs from every
\* id of the catalog as loaded and from every id assigned earlier in the run,
\* the numeric suffixes grow strictly in acceptance order, and the ids of a
\* well-formed catalog file stay pairwise distinct over any sequence of runs.
C1_IdsFreshAndIncreasing ==
    /\ MainLoaded =>
          \A i \in 1..Len(new_templates) :
              /\ new_templates[i].id \notin IdsOf(StartItems)
              /\ \A k \in 1..Len(StartItems) :
                     "id" \in DOMAIN StartItems[k]
                        => IdNum(StartItems[k].id) < IdNum(new_templates[i].id)
              /\ \A j \in 1..(i - 1) :
                     /\ new_templates[j].id # new_templates[i].id
                     /\ IdNum(new_templates[j].id) < IdNum(new_templates[i].id)
    /\ Parseable(file) =>
          LET items == ParseCatalog(file).items
          IN \A i, j \in 1..Len(items) :
                 (i # j /\ "id" \in DOMAIN items[i] /\ "id" \in DOMAIN items[j])
                    => items[i].id # items[j].id

\* a run over a non-empty catalog that has assigned two ids
C1_Witness ==
    /\ MainLoaded
    /\ Len(new_templates) = 2
    /\ IdsOf(StartItems) # {}

\* C2: a candidate whose 100-character prompt prefix equals that of a record
\* of the catalog or of a record accepted earlier in the same run is dropped,
\* so no two items of the catalog share a 100-character prompt prefix.
C2_NoFingerprintCollision ==
    /\ MainLoaded =>
          \A i \in 1..Len(new_templates) :
              /\ \A k \in 1..Len(StartItems) :
                     Fingerprint(StartItems[k]) # Fingerprint(new_templates[i])
              /\ \A j \in 1..(i - 1) :
                     Fingerprint(new_templates[j]) # Fingerprint(new_templates[i])
    /\ Parseable(file) =>
          LET items == ParseCatalog(file).items
          IN \A i, j \in 1..Len(items) :
                 i # j => Fingerprint(items[i]) # Fingerprint(items[j])

\* C3: a run of main that follows a completed run over the same files, in the
\* same order, accepts no record and leaves the items of the catalog as the
\* first run left them.
C3_Idempotent ==
    ((MainCompleted \/ (script = "github" /\ pc = "cleanup")) /\ prev.ok)
        => /\ new_templates = <<>>
           /\ outcome = "no_new"
           /\ Parseable(file)
           /\ ParseCatalog(file).items = prev.items

\* a rerun that examined a document the first run had accepted
C3_Witness ==
    /\ MainCompleted
    /\ prev.ok
    /\ idx >= 1
    /\ \E k \in 1..Len(prev.items) :
           /\ "id" \in DOMAIN prev.items[k]
           /\ prev.items[k].id = Str("nbp-001")
           /\ prev.items[k].source.url = BlobUrl \o template_files[1]


\* C4: the catalog file always holds either exactly the catalog the run
\* started from or a complete catalog that extends it; a truncated, empty or
\* partially written file is never observable.
C4_AtomicCatalog ==
    \/ file = startFile
    \/ /\ Parseable(file)
       /\ Parseable(startFile)
       /\ Len(ParseCatalog(file).items) >= Len(StartItems)
       /\ SubSeq(ParseCatalog(file).items, 1, Len(StartItems)) = StartItems

\* the position of a record's source document in the located list
PositionOf(record) ==
    CHOOSE k \in 1..Len(template_files) :
        BlobUrl \o template_files[k] = record.source.url

\* C5: after a run of main the items the catalog held when it was loaded are
\* a prefix of its items, unaltered and in their order, and the records the
\* run accepted follow that prefix in the order in which find_template_files
\* yielded their source documents.
C5_AppendOnly ==
    MainCompleted =>
        /\ Parseable(file)
        /\ ParseCatalog(file).items = StartItems \o new_templates
        /\ template_files = find_template_files(repo)
        /\ \A i, j \in 1..Len(new_templates) :
               i < j => PositionOf(new_templates[i]) < PositionOf(new_templates[j])

\* a completed run that appended two records after the items already there
C5_Witness ==
    /\ MainCompleted
    /\ outcome = "merged"
    /\ Len(new_templates) = 2
    /\ StartItems # <<>>

\* C6: a run of main that accepts no record leaves the persisted catalog as it
\* was: the items are unchanged, and no field other than meta differs.
C6_ZeroAcceptedFrame ==
    (MainCompleted /\ new_templates = <<>>)
        => /\ Parseable(file)
           /\ ParseCatalog(file).items = StartItems
           /\ Len(file) = Len(startFile)
           /\ \A k \in 2..Len(file) : file[k] = startFile[k]

\* a completed run whose only candidate was a duplicate
C6_Witness ==
    /\ MainCompleted
    /\ new_templates = <<>>
    /\ idx >= 1
    /\ \E k \in 1..Len(StartItems) :
           /\ "prompt" \in DOMAIN StartItems[k]
           /\ parse_prompt_file(read_file_content(template_files[1], repo),
                                template_files[1]) # None
           /\ Fingerprint(StartItems[k])
                = Fingerprint(parse_prompt_file(read_file_content(template_files[1], repo),
                                                template_files[1]))

\* the meta a run that writes at the current clock reading leaves
StampNow == [version |-> DateOf(now), updated_at |-> IsoOf(now)]

\* C7 as stated: every run of main that completes refreshes meta.version and
\* meta.updated_at in the persisted catalog, a run that accepts no record included.
C7_MetaRefreshedEveryRun ==
    MainCompleted => (Parseable(file) /\ ParseCatalog(file).meta = StampNow)

\* C8: when every retrieval strategy has failed the run ends normally with a
\* "no source" result: main returns without reading or writing the catalog,
\* extract_all_templates returns an empty list; no record is accepted and the
\* catalog file is as it was.
C8_NoSourceIsNotAnError ==
    (attempts # <<>> /\ ~Last(attempts).ok
        /\ Last(attempts).strategy = (IF script = "github" THEN "sparse" ELSE "mirror"))
        => /\ pc = "exit"
           /\ outcome = "no_source"
           /\ data = NoData
           /\ new_templates = <<>>
           /\ templates = <<>>
           /\ file = startFile

\* the extractor after its clone and each of its mirror probes failed
C8_Witness ==
    /\ script = "banana"
    /\ attempts = <<[strategy |-> "clone", ok |-> FALSE],
                    [strategy |-> "mirror", ok |-> FALSE]>>
    /\ probe = NumMirrors * ProbePaths
    /\ pc = "exit"

\* the priority of a retrieval strategy
Rank(strategy) ==
    CASE strategy = "clone" -> 1
      [] strategy = "sparse" -> 2
      [] strategy = "mirror" -> 3

\* C9: within a run the strategies are attempted in the order clone, sparse
\* checkout, mirror; a strategy is attempted only once every strategy
\* attempted before it has failed, so after a success no later one is attempted.
C9_FixedOrderFirstSuccessWins ==
    \A k \in 1..Len(attempts) : \A j \in 1..(k - 1) :
        /\ Rank(attempts[j].strategy) < Rank(attempts[k].strategy)
        /\ ~attempts[j].ok

\* the fields of a record the parser derives from the document
Derived(record) ==
    [prompt |-> record.prompt,
     title |-> record.title,
     channels |-> record.channels,
     materials |-> record.materials,
     industries |-> record.industries,
     ratio |-> record.ratio,
     prompt_params |-> record.prompt_params]

\* the elements of a sequence
Range(seq) == {seq[k] : k \in 1..Len(seq)}

\* C10: for the same files, the documents located and every derived record
\* (prompt, title, tags, ratio, prompt_params) after a successful clone, by
\* NanoBananaTemplateExtractor, are those the pipeline of extract_from_github
\* produces after a successful sparse checkout.
C10_StrategyIndependence ==
    (script = "banana" /\ pc = "exit" /\ outcome = "templates") =>
        /\ Range(template_files) = Range(find_template_files(repo))
        /\ \A path \in Range(template_files) :
               LET sparse == parse_prompt_file(read_file_content(path, repo), path)
                   cloned == {r \in Range(templates) : r.source.url = BlobUrl \o path}
               IN IF sparse = None THEN cloned = {}
                  ELSE \E r \in cloned : Derived(r) = Derived(sparse)

\* the records a run has built so far
Built == Range(new_templates) \cup Range(templates)

\* the text of the document a record was built from
ContentOf(record) ==
    LET path == CHOOSE q \in Range(template_files) : BlobUrl \o q = record.source.url
    IN read_file_content(path, repo)

\* the stripped lines of a document
StrippedLines(content) ==
    LET lines == split(content, NL)
    IN [i \in 1..Len(lines) |-> strip(lines[i])]

IsFenceLine(line) == startswith(line, Fence)

\* the first of the lines at the given positions, "" without one
FirstAt(lines, positions) ==
    IF positions = {} THEN <<>>
    ELSE lines[CHOOSE i \in positions : \A j \in positions : i <= j]

\* the fenced-block rule: the first non-blank line that lies inside a fenced
\* block, that is after an odd number of delimiter lines
FencedRule(content) ==
    LET lines == StrippedLines(content)
    IN FirstAt(lines,
               {i \in 1..Len(lines) :
                   /\ lines[i] # <<>>
                   /\ ~IsFenceLine(lines[i])
                   /\ Cardinality({j \in 1..(i - 1) : IsFenceLine(lines[j])}) % 2 = 1})

\* C11: whenever the document holds a fenced block with a non-blank line in it,
\* the prompt of its record is the line the fenced-block rule selects, whatever
\* lines lie outside the block; for the records of both scripts.
C11_FencedBlockFirst ==
    \A r \in Built :
        FencedRule(ContentOf(r)) # <<>>
            => r.prompt = Prefix(FencedRule(ContentOf(r)), PromptCap)

\* C12: a record is built only from a document one of the extraction rules
\* yields a prompt for, so the prompt of every record is a line of its source
\* document (cut to the prompt cap), never a synthesized placeholder.
C12_NoPlaceholderPrompt ==
    \A r \in Built :
        LET lines == StrippedLines(ContentOf(r))
        IN \E i \in 1..Len(lines) :
              /\ lines[i] # <<>>
              /\ r.prompt = Prefix(lines[i], PromptCap)

IsHeading(line) == startswith(line, <<Hash>>)

\* the Latin-ratio rule with the given threshold, in tenths
LatinRule(content, tenths) ==
    LET lines == StrippedLines(content)
    IN FirstAt(lines,
               {i \in 1..Len(lines) :
                   /\ lines[i] # <<>>
                   /\ ~IsHeading(lines[i])
                   /\ Len(lines[i]) > 20
                   /\ RatioAbove(lines[i], tenths)})

\* the unconditional fallback: the first non-blank, non-heading line longer
\* than 10 characters
FallbackRule(content) ==
    LET lines == StrippedLines(content)
    IN FirstAt(lines,
               {i \in 1..Len(lines) :
                   /\ lines[i] # <<>>
                   /\ ~IsHeading(lines[i])
                   /\ Len(lines[i]) > 10})

\* the located documents the parse loop has been through
Processed == {template_files[k] : k \in 1..idx}

\* the records built from the document at a path
RecordsOf(path) == {r \in Built : r.source.url = BlobUrl \o path}

\* C13: a processed document for which the fenced-block rule and the
\* Latin-ratio rule (at the lower threshold, 0.6) yield nothing, but which has
\* a non-blank, non-heading line longer than 10 characters, is not a parse
\* failure: unless its prompt duplicates a catalog item, a record is built from
\* it whose prompt is the first such line.
C13_UnconditionalFallback ==
    \A path \in Processed :
        LET content == read_file_content(path, repo)
        IN (/\ content # <<>>
            /\ FencedRule(content) = <<>>
            /\ LatinRule(content, 6) = <<>>
            /\ FallbackRule(content) # <<>>)
           => \/ \E r \in RecordsOf(path) :
                    r.prompt = Prefix(FallbackRule(content), PromptCap)
              \/ /\ script = "github"
                 /\ data # NoData
                 /\ \E item \in Range(data.items) :
                        Fingerprint(item) = Prefix(FallbackRule(content), FingerprintLen)

\* the fixed set of aspect ratios of a TemplateRecord
FixedRatios == {Str("9:16"), Str("16:9"), Str("3:4"), Str("1:1")}

\* a non-empty list of non-empty tags
NonEmptyTags(tags) == Len(tags) > 0 /\ \A k \in 1..Len(tags) : tags[k] # <<>>

\* C14: every record either script builds carries one ratio of the fixed set
\* {9:16, 16:9, 3:4, 1:1} and a non-empty tag list for each of channels,
\* materials and industries, whatever the file name, category and content.
C14_ClassifierTotal ==
    \A r \in Built :
        /\ r.ratio \in FixedRatios
        /\ NonEmptyTags(r.channels)
        /\ NonEmptyTags(r.materials)
        /\ NonEmptyTags(r.industries)

\* a record whose file name holds no ratio keyword: the classifier took its
\* last branch
C14_Witness ==
    \E r \in Built :
        /\ r.ratio = Str("1:1")
        /\ ~AnyIn({Kw.portrait, Kw.xieshi, Kw.landscape, Kw.fengjing, Kw.poster, Kw.haibao},
                  lower(r.title))

\* the document cannot be read or parse_prompt_file returns None for it
Failing(path) ==
    LET content == read_file_content(path, repo)
    IN content = <<>> \/ parse_prompt_file(content, path) = None

RECURSIVE AcceptAll(_, _, _)
\* the records a run accepts, in order, from documents that all read and parse
AcceptAll(files, items, accepted) ==
    IF files = <<>> THEN accepted
    ELSE LET template == parse_prompt_file(read_file_content(Head(files), repo),
                                           Head(files))
         IN AcceptAll(Tail(files), items,
                      IF is_duplicate(template, items) THEN accepted
                      ELSE Append(accepted,
                                  [id |-> get_next_id(items \o accepted)] @@ template))

\* main is in or past its parse loop and still holds its local variables
MainParsing == script = "github" /\ pc \in {"parse", "open", "dump", "cleanup"}

\* C15: in main, a document that cannot be read or that parse_prompt_file
\* returns None for contributes no record and does not end the loop: the
\* records accepted so far are those a run accepts from the documents visited
\* so far with the failing ones taken out of the tree, and the catalog is
\* written only after every candidate was visited.
C15_FailuresSkipped ==
    MainParsing =>
        /\ new_templates =
               AcceptAll(SelectSeq(SubSeq(template_files, 1, idx),
                                   LAMBDA path : ~Failing(path)),
                         StartItems, <<>>)
        /\ pc # "parse" => idx = Candidates

\* a run that met an unreadable document and a document without a prompt, and
\* accepted the document after each of them
C15_Witness ==
    /\ MainParsing
    /\ pc = "cleanup"
    /\ \E k \in 1..(Len(template_files) - 1) :
           /\ read_file_content(template_files[k], repo) = <<>>
           /\ RecordsOf(template_files[k]) = {}
           /\ RecordsOf(template_files[k + 1]) # {}
    /\ \E k \in 1..(Len(template_files) - 1) :
           /\ read_file_content(template_files[k], repo) # <<>>
           /\ Failing(template_files[k])
           /\ RecordsOf(template_files[k]) = {}
           /\ RecordsOf(template_files[k + 1]) # {}

\* the paths the Document Locator is to yield for a working copy: below the
\* target subtree, ending in .md, and not the readme under case-insensitive
\* comparison
LocatorContract(tree) ==
    {Doc[tree[k]].path : k \in
        {j \in 1..Len(tree) :
            /\ startswith(Doc[tree[j]].path, SubtreePrefix)
            /\ endswith(Doc[tree[j]].path, Str(".md"))
            /\ lower(BaseName(Doc[tree[j]].path)) # Str("readme.md")}}

\* C16: the documents located in a working copy, by find_template_files of
\* either script, are exactly its entries under the target subtree whose name
\* ends in .md and whose base name is not README.md in any letter case.
C16_LocatorExact ==
    template_files # <<>> => Range(template_files) = LocatorContract(repo)

\* the mirror the k-th probe of a run is sent to: the two probe paths of
\* mirror 1, then those of mirror 2, then those of mirror 3
MirrorOfProbe(k) == ((k - 1) \div ProbePaths) + 1

\* this step sends a probe
ProbeIssued == probe' = probe + 1

\* C17: in extract_via_html the probes are sent in list order, one endpoint
\* after the other and none twice (the probe counter only steps by one, up to
\* mirrors x probe paths); a probe that does not answer 200 leaves the method
\* probing, and only with every endpoint tried does it return, empty-handed and
\* without an exception; the first 200 selects the mirror of that probe and no
\* probe is sent after it.
C17_MirrorProbing ==
    [][ /\ probe' # probe => (probe' = 0 \/ (pc = "bn_probe" /\ ProbeIssued))
        /\ (pc = "bn_probe" /\ ProbeIssued) =>
              /\ probe' <= NumMirrors * ProbePaths
              /\ pc' \in {"bn_probe", "bn_mirror"}
              /\ MirrorOfProbe(probe') \in 1..NumMirrors
        /\ (pc = "bn_probe" /\ ~ProbeIssued /\ pc' # "killed") =>
              /\ probe = NumMirrors * ProbePaths
              /\ pc' = "exit"
              /\ outcome' = "no_source"
        /\ pc = "bn_mirror" => ~ProbeIssued
      ]_vars

\* three probes went unanswered and the fourth, the second of mirror 2,
\* answered 200
C17_Witness ==
    /\ script = "banana"
    /\ pc = "bn_mirror"
    /\ probe = 4
    /\ MirrorOfProbe(probe) = 2
    /\ Last(attempts) = [strategy |-> "mirror", ok |-> TRUE]

\* the zero-padding width of get_next_id, {max_id + 1:03d}
IdWidth == 3

\* the largest numeric suffix among the ids of the items, 0 without one
MaxSuffix(items) ==
    LET nums == {IdNum(id) : id \in IdsOf(items)}
    IN IF nums = {} THEN 0 ELSE CHOOSE n \in nums : \A m \in nums : m <= n

\* "nbp-" followed by exactly IdWidth decimal digits
FixedWidthId(id) ==
    /\ Len(id) = Len(NbpPrefix) + IdWidth
    /\ startswith(id, NbpPrefix)
    /\ \A k \in (Len(NbpPrefix) + 1)..Len(id) : IsDigit(id[k])

\* C18: every id either script generates is "nbp-" followed by the largest
\* numeric suffix among the ids known so far (the loaded catalog and the
\* records accepted earlier in the run) plus one, written with one and the same
\* number of digits.
C18_IdsMaxPlusOneFixedWidth ==
    /\ \A r \in Built : FixedWidthId(r.id)
    /\ MainParsing =>
          \A k \in 1..Len(new_templates) :
              IdNum(new_templates[k].id)
                  = MaxSuffix(StartItems \o SubSeq(new_templates, 1, k - 1)) + 1
    /\ \A k \in 1..Len(templates) :
           IdNum(templates[k].id) = MaxSuffix(SubSeq(templates, 1, k - 1)) + 1

\* the path of the document a record was built from
SourcePath(record) ==
    CHOOSE q \in Range(template_files) : BlobUrl \o q = record.source.url

\* the base name without its extension, separators replaced by spaces,
\* trimmed, in title case
TitleContract(path) ==
    LET base == BaseName(path)
        stem == IF endswith(base, Str(".md")) THEN SubSeq(base, 1, Len(base) - 3)
                ELSE base
    IN title(strip(replace(replace(stem, Str("-"), Str(" ")), Str("_"), Str(" "))))

\* C19: the title of every record is the base name of its file without the
\* extension, with '-' and '_' replaced by spaces, trimmed and in title case,
\* and nothing else: "Fashion Photography" for Fashion-Photography.md.
C19_TitleFromBaseName ==
    \A r \in Built : r.title = TitleContract(SourcePath(r))

\* C20: in a run of main no more than the per-run maximum of candidates (50)
\* is examined, so no more than that many records are accepted and appended,
\* however many documents were located; every accepted record comes from one
\* of the first 50 located documents.
C20_CandidatesBounded ==
    MainParsing =>
        /\ idx <= MaxCandidates
        /\ Len(new_templates) <= MaxCandidates
        /\ \A r \in Range(new_templates) :
               \E k \in 1..MaxCandidates :
                   k <= Len(template_files) /\ SourcePath(r) = template_files[k]
        /\ Len(data.items) <= Len(StartItems) + MaxCandidates

\* a run that located more documents than the maximum, accepted one record for
\* each of the first 50 and merged them, leaving the 51st document out
C20_Witness ==
    /\ MainParsing
    /\ pc = "cleanup"
    /\ Len(template_files) > MaxCandidates
    /\ idx = MaxCandidates
    /\ Len(new_templates) = MaxCandidates
    /\ Len(data.items) = Len(StartItems) + MaxCandidates
    /\ RecordsOf(template_files[MaxCandidates + 1]) = {}

\* the ordered rule lists of classify_template, one per dimension: the
\* keywords of a rule and what the rule assigns
ChannelRules ==
    << [kws |-> {Kw.portrait, Kw.anime, Kw.character, Kw.xieshi, Kw.dongman},
        gives |-> <<Tag.shenghuo, Tag.xiaohongshu>>],
       [kws |-> {Kw.product, Kw.food, Kw.fashion, Kw.chanpin, Kw.meishi, Kw.shishang},
        gives |-> <<Tag.dianshang>>],
       [kws |-> {Kw.cyberpunk, Kw.comic, Kw.pixel, Kw.fantasy, Kw.saibo, Kw.manhua},
        gives |-> <<Tag.yule, Tag.duanshipin>>] >>

MaterialRules ==
    << [kws |-> {Kw.portrait, Kw.character, Kw.xieshi}, gives |-> <<Tag.gerenXiezhen>>],
       [kws |-> {Kw.poster, Kw.haibao}, gives |-> <<Tag.dianyingHaibao, Tag.guanggaotu>>],
       [kws |-> {Kw.logo, Kw.design}, gives |-> <<Tag.chanpinSheji>>],
       [kws |-> {Kw.comic, Kw.manhua}, gives |-> <<Tag.manhuaChatu>>],
       [kws |-> {Kw.landscape, Kw.fengjing}, gives |-> <<Tag.quanpingHaibao>>] >>

IndustryRules ==
    << [kws |-> {Kw.food, Kw.meishi}, gives |-> <<Tag.meishiCanyin>>],
       [kws |-> {Kw.fashion, Kw.shishang}, gives |-> <<Tag.fushiXiangbao>>],
       [kws |-> {Kw.architectural, Kw.architecture, Kw.jianzhu},
        gives |-> <<Tag.jianzhu, Tag.jiajuJiazhuang>>] >>

RatioRules ==
    << [kws |-> {Kw.portrait, Kw.xieshi}, gives |-> Str("9:16")],
       [kws |-> {Kw.landscape, Kw.fengjing}, gives |-> Str("16:9")],
       [kws |-> {Kw.poster, Kw.haibao}, gives |-> Str("3:4")] >>

\* the rules of a list one of whose keywords is a substring of the name
Matching(rules, name) ==
    {k \in 1..Len(rules) : \E kw \in rules[k].kws : Contains(kw, name)}

\* what the first matching rule assigns, the default without a matching rule
FirstMatch(rules, default, name) ==
    IF Matching(rules, name) = {} THEN default
    ELSE rules[CHOOSE k \in Matching(rules, name) :
                   \A j \in Matching(rules, name) : k <= j].gives

\* the lowercased file name classify_template is given for a path: the base
\* name without its extension
LowerName(path) ==
    LET base == BaseName(path)
    IN lower(SubSeq(base, 1, Len(base) - Len(Str(".md"))))

MirrorAccepted ==
    /\ script = "banana"
    /\ attempts # <<>>
    /\ Last(attempts) = [strategy |-> "mirror", ok |-> TRUE]

\* C22: once extract_via_html has accepted a mirror, extract_all_templates
\* goes through the candidate paths, fetching each from that mirror, and
\* returns its records: the run does not end in an exception.
C22_MirrorFetchCompletes ==
    MirrorAccepted => pc \in {"bn_mirror", "exit", "killed"}

\* the positions inside clone_repo_sparse
ClonePositions ==
    {"git_init", "remote_add", "config", "sparse_file", "pull_main", "pull_master"}

\* C23: in clone_repo_sparse main is pulled once, after the sparse-checkout
\* file was written, and master is pulled only after the pull of main returned
\* a non-zero status, and once: a pull is followed by no pull but that one.
\* The function returns the working copy exactly from a pull that exited with
\* status zero, and when it ends otherwise (a failure or a timeout of any
\* command) the working copy has been removed, None is returned and main ends
\* with "no source" and the catalog untouched.
C23_PullMainThenMasterOnce ==
    [][ script = "github" =>
          /\ pc' = "pull_main" => pc = "sparse_file"
          /\ pc' = "pull_master" => pc = "pull_main"
          /\ pc = "pull_main" => pc' \in {"locate", "pull_master", "exit", "killed"}
          /\ pc = "pull_master" => pc' \in {"locate", "exit", "killed"}
          /\ (pc \in ClonePositions /\ pc' = "locate") =>
                /\ pc \in {"pull_main", "pull_master"}
                /\ temp_banana_repo'
                /\ Last(attempts') = [strategy |-> "sparse", ok |-> TRUE]
          /\ (pc \in ClonePositions /\ pc' = "exit") =>
                /\ ~temp_banana_repo'
                /\ outcome' = "no_source"
                /\ Last(attempts') = [strategy |-> "sparse", ok |-> FALSE]
                /\ file' = file
      ]_vars

\* the pull of main returned a non-zero status and master is about to be pulled
C23_Witness ==
    /\ script = "github"
    /\ pc = "pull_master"
    /\ temp_banana_repo
    /\ attempts = <<>>

\* how many delimiter lines precede line i
FencesBefore(lines, i) == Cardinality({j \in 1..(i - 1) : IsFenceLine(lines[j])})

\* the non-blank lines between the first delimiter line and the second
FirstBlockPositions(lines) ==
    {i \in 1..Len(lines) :
        lines[i] # <<>> /\ ~IsFenceLine(lines[i]) /\ FencesBefore(lines, i) = 1}

\* the non-blank lines inside any fenced block, and those outside every block
InsidePositions(lines) ==
    {i \in 1..Len(lines) :
        lines[i] # <<>> /\ ~IsFenceLine(lines[i]) /\ FencesBefore(lines, i) % 2 = 1}
OutsidePositions(lines) ==
    {i \in 1..Len(lines) :
        lines[i] # <<>> /\ ~IsFenceLine(lines[i]) /\ FencesBefore(lines, i) % 2 = 0}

\* the fenced-block rule confined to the first block
FirstBlockRule(content) ==
    FirstAt(StrippedLines(content), FirstBlockPositions(StrippedLines(content)))

\* C24: a prompt taken from inside a fenced block (a line of a block that is
\* not also a line outside the blocks) is the first non-blank line of the
\* first fenced block of the document, never a line of a later block; for the
\* records of both scripts.
C24_FirstBlockOnly ==
    \A r \in Built :
        LET lines == StrippedLines(ContentOf(r))
            taken(i) == r.prompt = Prefix(lines[i], PromptCap)
        IN ((\E i \in InsidePositions(lines) : taken(i))
                /\ ~(\E i \in OutsidePositions(lines) : taken(i)))
           => r.prompt = Prefix(FirstBlockRule(ContentOf(r)), PromptCap)


\* C26: whenever a run has ended, by returning or by an uncaught exception,
\* the working-copy directory of its pipeline no longer exists
\* (temp_banana_repo for main, temp_github_repo for extract_all_templates).
C26_WorkingCopyRemoved ==
    pc \in {"exit", "crashed"} =>
        /\ script = "github" => ~temp_banana_repo
        /\ script = "banana" => ~temp_github_repo


\* both processes have written their catalog in runs that loaded the same
\* catalog text: neither had written when the other loaded
BothMerged ==
    /\ script = "github"
    /\ pc \in {"cleanup", "exit"}
    /\ other.pc \in {"cleanup", "exit"}
    /\ outcome = "merged"
    /\ other.outcome = "merged"
    /\ startFile = other.startFile

\* the records of run l that run w did not accept as well
OnlyIn(l, w) == Range(l.new_templates) \ Range(w.new_templates)

\* run w wrote last: the file is its loaded snapshot followed by its own
\* records, and what only run l appended is gone
LastWriter(w, l) ==
    /\ file = Serialize(w.data)
    /\ ParseCatalog(file).items = Extend(StartItems, w.new_templates)
    /\ OnlyIn(l, w) \cap Range(ParseCatalog(file).items) = {}

====
